---------------------------- MODULE Spec2Model ----------------------------
(***************************************************************************)
(* Inventory stock ledger and automatic consumption engine of the bakery   *)
(* backend: the post_save handler of orders (orders/signals.py), the       *)
(* manual deduction, purchase-order receipt and availability endpoints and *)
(* the movement API (inventory/views.py), the sample-data script and the   *)
(* feedback create endpoint.  Quantities are whole units of the            *)
(* ingredient's smallest stored fraction.  Request handlers run in         *)
(* concurrent workers and are split at every access to the shared tables:  *)
(* the code takes no lock and opens no transaction.                        *)
(***************************************************************************)
EXTENDS Integers, Sequences, FiniteSets, TLC

(* ------------------------------ bounds -------------------------------- *)
\* number of requests a behaviour starts
MaxOps == 2

(* ------------------------------ inputs -------------------------------- *)
OpeningStocks == {0, 3}
Amounts == {-1, 0, 1, 2}
ReceivedQuantities == {0, 1, 2}
Servings == {1, 2}

(* ----------------------------- catalogue ------------------------------ *)
Workers == {"w1", "w2"}
Ingredients == {"Flour", "Eggs"}
Orders == {"o1", "o2"}
None == "none"

OrderStatuses ==
    {"pending", "confirmed", "preparing", "ready", "out_for_delivery",
     "delivered", "cancelled"}

\* the statuses a status update is driven with
StatusInputs == {"confirmed", "preparing", "cancelled"}

\* a cancellation taken for a trigger as well
QualifyingAndCancelled == {"confirmed", "preparing", "cancelled"}

\* signals.py 23
Qualifying == {"confirmed", "preparing"}

\* Cake.ingredients: the JSON list of {name, quantity} entries of a cake
CakeIngredients(cake) ==
    CASE cake = "Chocolate" ->
           << [name |-> "Flour", quantity |-> 2], [name |-> "Eggs", quantity |-> 1] >>
      [] cake = "Mystery" ->
           << [name |-> "Saffron", quantity |-> 1], [name |-> "Flour", quantity |-> 1] >>
      [] OTHER -> << >>

\* order.items: the line items of an order
OrderItems(o) ==
    CASE o = "o1" -> << [cake |-> "Chocolate", quantity |-> 1] >>
      [] o = "o2" -> << [cake |-> "Plain", quantity |-> 1], [cake |-> "Mystery", quantity |-> 2] >>
      [] OTHER -> << >>

\* Recipe.ingredients: the normalised recipe the availability check reads
Recipes == {"ChocolateCake"}
RecipeIngredients(r) ==
    << [ingredient |-> "Flour", quantity |-> 1], [ingredient |-> "Eggs", quantity |-> 2] >>

\* the purchase order under receipt and its lines; L9 is a line of another order
PONumber == "PO1"
POLines == {"L1", "L2"}
ItemIds == POLines \cup {"L9"}
LineIngredient(l) == IF l = "L1" THEN "Flour" ELSE "Eggs"
LineQuantity(l) == IF l = "L1" THEN 2 ELSE 1
LineUnitCost(l) == IF l = "L1" THEN 2 ELSE 3

(* ------------------------------ helpers ------------------------------- *)
Min(a, b) == IF a < b THEN a ELSE b
Max(a, b) == IF a > b THEN a ELSE b

RECURSIVE SumSeq(_)
SumSeq(s) == IF s = << >> THEN 0 ELSE Head(s) + SumSeq(Tail(s))

RECURSIVE SelectSeqBy(_, _)
SelectSeqBy(s, ing) ==
    IF s = << >> THEN << >>
    ELSE IF Head(s).ingredient = ing
         THEN << Head(s) >> \o SelectSeqBy(Tail(s), ing)
         ELSE SelectSeqBy(Tail(s), ing)

(* ------------------------------- state -------------------------------- *)
VARIABLES
    stock,          \* Ingredient.current_stock, per ingredient
    movements,      \* the StockMovement table, in creation order
    order_status,   \* Order.order_status as stored
    system_user,    \* whether an admin or inventory manager exists
    inst,           \* the Order instance a worker holds in memory
    pc,             \* where each worker's handler stands
    local,          \* the handler's local variables
    response,       \* the last response a finished request returned
    received_quantity, \* PurchaseOrderItem.received_quantity, per line
    po_status,      \* PurchaseOrder.status
    nops,           \* number of requests started
    opening,        \* history: the balance each ingredient was created with
    requested,      \* history: total quantity order deductions have asked for
    is_active,      \* Ingredient.is_active, per ingredient
    feedbacks,      \* the Feedback table, in creation order
    processed,      \* history: the orders whose handler ran to its last line
    received_items, \* history: the lines the last receipt request carried
    unit_cost,      \* Ingredient.unit_cost, per ingredient
    deferred        \* history: the orders whose handler found no system user

vars == << stock, movements, order_status, system_user, inst, pc, local,
           response, received_quantity, po_status, nops, opening, requested,
           is_active, feedbacks, processed, received_items, unit_cost,
           deferred >>

NoLocal == [item |-> 0, ing |-> 0, ingredient |-> None, needed |-> 0,
            previous_stock |-> 0, new_stock |-> 0, unit_cost |-> 0]
NoInst == [order |-> None, deducted |-> FALSE]
NoResponse == [kind |-> "none"]

Init ==
    /\ stock \in [Ingredients -> OpeningStocks]
    /\ opening = stock
    /\ movements = << >>
    /\ order_status = [o \in Orders |-> "pending"]
    /\ system_user \in BOOLEAN
    /\ inst = [w \in Workers |-> NoInst]
    /\ pc = [w \in Workers |-> "idle"]
    /\ local = [w \in Workers |-> NoLocal]
    /\ response = NoResponse
    /\ received_quantity = [l \in POLines |-> 0]
    /\ po_status = "confirmed"
    /\ nops = 0
    /\ requested = [i \in Ingredients |-> 0]
    /\ is_active = [i \in Ingredients |-> TRUE]
    /\ feedbacks = << >>
    /\ processed = {}
    /\ received_items = << >>
    /\ unit_cost = [i \in Ingredients |-> 1]
    /\ deferred = {}


(* --------------------------- stock register --------------------------- *)
\* the request applied whatever the balance
AppliedUnclamped(total_quantity_needed, current_stock) == total_quantity_needed

\* signals.py 85-89: a request above the balance is clamped to the balance
Applied(total_quantity_needed, current_stock) ==
    IF current_stock < total_quantity_needed
    THEN current_stock
    ELSE total_quantity_needed

\* the operands of the subtraction swapped
NewStockSwapped(previous_stock, quantity) == Max(0, quantity - previous_stock)

\* signals.py 94
NewStock(previous_stock, quantity) == Max(0, previous_stock - quantity)

\* StockMovement.objects.create(...) with every field given by the caller
Movement(ing, type, qty, prev, new, ref) ==
    [ingredient |-> ing, movement_type |-> type, quantity |-> qty,
     previous_stock |-> prev, new_stock |-> new, reference |-> ref]

\* Stock Register add: read the balance, write balance + qty, append the movement
StockRegisterAdd(st, mv, uc, ing, qty, cost, ref) ==
    [stock |-> [st EXCEPT ![ing] = st[ing] + qty],
     movements |-> Append(mv, Movement(ing, "in", qty, st[ing], st[ing] + qty, ref)),
     unit_cost |-> [uc EXCEPT ![ing] = cost]]

(* ------------------------- consumption engine ------------------------- *)
\* first line item at or after k whose cake lists ingredients (signals.py 56-60)
RECURSIVE Seek(_, _)
Seek(o, k) ==
    IF k > Len(OrderItems(o)) THEN k
    ELSE IF CakeIngredients(OrderItems(o)[k].cake) = << >> THEN Seek(o, k + 1)
    ELSE k

\* the rest of a cake's entries left out
NextPosNextItem(o, k, j) == [item |-> Seek(o, k + 1), ing |-> 1]

\* the loop position after entry (k, j) of order o
NextPos(o, k, j) ==
    IF j < Len(CakeIngredients(OrderItems(o)[k].cake))
    THEN [item |-> k, ing |-> j + 1]
    ELSE [item |-> Seek(o, k + 1), ing |-> 1]

Finished(o, pos) == pos.item > Len(OrderItems(o))

\* the handler ends at the first entry it does not deduct
GotoEnd(w, pos) ==
    /\ inst' = [inst EXCEPT ![w].deducted = TRUE]
    /\ processed' = processed \cup {inst[w].order}
    /\ pc' = [pc EXCEPT ![w] = "idle"]
    /\ local' = [local EXCEPT ![w] = NoLocal]

\* the handler moves to loop position pos, or ends and marks the instance
Goto(w, pos) ==
    IF Finished(inst[w].order, pos)
    THEN /\ inst' = [inst EXCEPT ![w].deducted = TRUE]
         /\ processed' = processed \cup {inst[w].order}
         /\ pc' = [pc EXCEPT ![w] = "idle"]
         /\ local' = [local EXCEPT ![w] = NoLocal]
    ELSE /\ inst' = inst
         /\ processed' = processed
         /\ pc' = [pc EXCEPT ![w] = "read"]
         /\ local' = [local EXCEPT ![w] =
                        [NoLocal EXCEPT !.item = pos.item, !.ing = pos.ing]]

\* the instance marked although no system user was found
HandlerEntryMarks(w, o, s, flag) ==
    IF s \in Qualifying /\ ~flag /\ system_user
    THEN IF Finished(o, [item |-> Seek(o, 1), ing |-> 1])
         THEN /\ inst' = [inst EXCEPT ![w] = [order |-> o, deducted |-> TRUE]]
              /\ processed' = processed \cup {o}
              /\ deferred' = deferred
              /\ pc' = pc
              /\ local' = local
         ELSE /\ inst' = [inst EXCEPT ![w] = [order |-> o, deducted |-> flag]]
              /\ processed' = processed
              /\ deferred' = deferred
              /\ pc' = [pc EXCEPT ![w] = "read"]
              /\ local' = [local EXCEPT ![w] =
                             [NoLocal EXCEPT !.item = Seek(o, 1), !.ing = 1]]
    ELSE /\ inst' = [inst EXCEPT ![w] =
                       [order |-> o, deducted |-> flag \/ s \in Qualifying]]
         /\ processed' = processed
         /\ deferred' = IF s \in Qualifying /\ ~flag THEN deferred \cup {o}
                        ELSE deferred
         /\ pc' = pc
         /\ local' = local

\* post_save handler entry, signals.py 17-38, for the instance worker w holds
HandlerEntry(w, o, s, flag) ==
    IF s \in Qualifying /\ ~flag /\ system_user
    THEN IF Finished(o, [item |-> Seek(o, 1), ing |-> 1])
         THEN /\ inst' = [inst EXCEPT ![w] = [order |-> o, deducted |-> TRUE]]
              /\ processed' = processed \cup {o}
              /\ deferred' = deferred
              /\ pc' = pc
              /\ local' = local
         ELSE /\ inst' = [inst EXCEPT ![w] = [order |-> o, deducted |-> flag]]
              /\ processed' = processed
              /\ deferred' = deferred
              /\ pc' = [pc EXCEPT ![w] = "read"]
              /\ local' = [local EXCEPT ![w] =
                             [NoLocal EXCEPT !.item = Seek(o, 1), !.ing = 1]]
    ELSE /\ inst' = [inst EXCEPT ![w] = [order |-> o, deducted |-> flag]]
         /\ processed' = processed
         /\ deferred' = IF s \in Qualifying /\ ~flag THEN deferred \cup {o}
                        ELSE deferred
         /\ pc' = pc
         /\ local' = local

\* OrderStatusUpdateSerializer.create: a request loads the order, sets the
\* status and saves it; the instance is new, so it carries no attribute
UpdateStatus(w, o, s) ==
    /\ pc[w] = "idle"
    /\ nops < MaxOps
    /\ nops' = nops + 1
    /\ order_status' = [order_status EXCEPT ![o] = s]
    /\ HandlerEntry(w, o, s, FALSE)
    /\ response' = NoResponse
    /\ UNCHANGED << is_active, feedbacks, stock, movements, system_user,
                    received_quantity, po_status, opening, requested,
                    received_items, unit_cost >>

\* the instance a worker already holds is saved again
Resave(w, s) ==
    /\ pc[w] = "idle"
    /\ inst[w].order # None
    /\ nops < MaxOps
    /\ nops' = nops + 1
    /\ order_status' = [order_status EXCEPT ![inst[w].order] = s]
    /\ HandlerEntry(w, inst[w].order, s, inst[w].deducted)
    /\ response' = NoResponse
    /\ UNCHANGED << is_active, feedbacks, stock, movements, system_user,
                    received_quantity, po_status, opening, requested,
                    received_items, unit_cost >>

\* signals.py 63-95: look the entry's ingredient up and size the deduction
DeductRead(w) ==
    /\ pc[w] = "read"
    /\ LET o == inst[w].order
           item == OrderItems(o)[local[w].item]
           entry == CakeIngredients(item.cake)[local[w].ing]
           total == entry.quantity * item.quantity
           next == NextPos(o, local[w].item, local[w].ing)
       IN IF entry.name = "" \/ entry.quantity <= 0 \/ entry.name \notin Ingredients
          THEN /\ Goto(w, next)
               /\ requested' = requested
          ELSE /\ requested' = [requested EXCEPT ![entry.name] = @ + total]
               /\ LET needed == Applied(total, stock[entry.name])
                  IN IF needed > 0
                     THEN /\ local' = [local EXCEPT ![w].ingredient = entry.name,
                                          ![w].needed = needed,
                                          ![w].previous_stock = stock[entry.name],
                                          ![w].unit_cost = unit_cost[entry.name],
                                          ![w].new_stock = NewStock(stock[entry.name], needed)]
                          /\ pc' = [pc EXCEPT ![w] = "save"]
                          /\ inst' = inst
                          /\ processed' = processed
                     ELSE Goto(w, next)
    /\ UNCHANGED << is_active, feedbacks, stock, movements, order_status,
                    system_user, response, received_quantity, po_status,
                    nops, opening, received_items, unit_cost, deferred >>

\* signals.py 95-96: ingredient.save()
DeductSave(w) ==
    /\ pc[w] = "save"
    /\ stock' = [stock EXCEPT ![local[w].ingredient] = local[w].new_stock]
    /\ unit_cost' = [unit_cost EXCEPT ![local[w].ingredient] = local[w].unit_cost]
    /\ pc' = [pc EXCEPT ![w] = "create"]
    /\ UNCHANGED << is_active, feedbacks, processed, movements, order_status,
                    system_user, inst, local, response, received_quantity,
                    po_status, nops, opening, requested, received_items,
                    deferred >>

\* signals.py 99-111: StockMovement.objects.create, then the next entry
DeductCreate(w) ==
    /\ pc[w] = "create"
    /\ movements' = Append(movements,
            Movement(local[w].ingredient, "out", local[w].needed,
                     local[w].previous_stock, local[w].new_stock,
                     [tag |-> "ORDER", id |-> inst[w].order]))
    /\ Goto(w, NextPos(inst[w].order, local[w].item, local[w].ing))
    /\ UNCHANGED << is_active, feedbacks, stock, order_status, system_user,
                    response, received_quantity, po_status, nops, opening,
                    requested, received_items, unit_cost, deferred >>


(* -------------------------- manual deduction -------------------------- *)
\* the stock check dropped
InsufficientNever(current_stock, deduction_amount) == FALSE

\* the stock check refusing a request for the whole balance
InsufficientOrEqual(current_stock, deduction_amount) ==
    current_stock <= deduction_amount

\* views.py 677
Insufficient(current_stock, deduction_amount) == current_stock < deduction_amount

\* the deduction added instead of subtracted
ManualNewStockAdded(previous_stock, deduction_decimal) ==
    previous_stock + deduction_decimal

\* views.py 686
ManualNewStock(previous_stock, deduction_decimal) ==
    previous_stock - deduction_decimal

\* views.py 642-680: validate the amount against the ingredient just loaded
ManualDeduct(w, i, amount) ==
    /\ pc[w] = "idle"
    /\ nops < MaxOps
    /\ nops' = nops + 1
    /\ IF amount = 0 \/ amount <= 0 \/ Insufficient(stock[i], amount)
       THEN /\ response' = [kind |-> "bad_request",
                            message |-> IF amount = 0 THEN "required"
                                        ELSE IF amount <= 0 THEN "positive"
                                        ELSE "insufficient"]
            /\ pc' = pc
            /\ local' = local
       ELSE /\ response' = NoResponse
            /\ pc' = [pc EXCEPT ![w] = "m_save"]
            /\ local' = [local EXCEPT ![w] =
                           [NoLocal EXCEPT !.ingredient = i, !.needed = amount,
                                           !.previous_stock = stock[i],
                                           !.unit_cost = unit_cost[i],
                                           !.new_stock = ManualNewStock(stock[i], amount)]]
    /\ UNCHANGED << is_active, feedbacks, processed, stock, movements,
                    order_status, system_user, inst, received_quantity,
                    po_status, opening, requested, received_items, unit_cost,
                    deferred >>

\* views.py 687-688: ingredient.save()
ManualSave(w) ==
    /\ pc[w] = "m_save"
    /\ stock' = [stock EXCEPT ![local[w].ingredient] = local[w].new_stock]
    /\ unit_cost' = [unit_cost EXCEPT ![local[w].ingredient] = local[w].unit_cost]
    /\ pc' = [pc EXCEPT ![w] = "m_create"]
    /\ UNCHANGED << is_active, feedbacks, processed, movements, order_status,
                    system_user, inst, local, response, received_quantity,
                    po_status, nops, opening, requested, received_items,
                    deferred >>

\* views.py 691-716: StockMovement.objects.create and the 200 response
ManualCreate(w) ==
    /\ pc[w] = "m_create"
    /\ movements' = Append(movements,
            Movement(local[w].ingredient, "out", local[w].needed,
                     local[w].previous_stock, local[w].new_stock,
                     [tag |-> "MANUAL", id |-> None]))
    /\ response' = [kind |-> "deducted", amount |-> local[w].needed,
                    previous_stock |-> local[w].previous_stock,
                    new_stock |-> local[w].new_stock]
    /\ pc' = [pc EXCEPT ![w] = "idle"]
    /\ local' = [local EXCEPT ![w] = NoLocal]
    /\ UNCHANGED << is_active, feedbacks, processed, stock, order_status,
                    system_user, inst, received_quantity, po_status, nops,
                    opening, requested, received_items, unit_cost, deferred >>

\* IngredientViewSet (ModelViewSet) update: an ingredient's active flag is set
SetActive(i, b) ==
    /\ is_active[i] # b
    /\ is_active' = [is_active EXCEPT ![i] = b]
    /\ UNCHANGED << stock, movements, order_status, system_user, inst, pc,
                    local, response, received_quantity, po_status, nops,
                    opening, requested, feedbacks, processed, received_items,
                    unit_cost, deferred >>

(* ----------------------- procurement reconciler ----------------------- *)
\* a line of another order is looked up by id alone: its quantity is never used
ReceiptLine ==
    [item_id : POLines, received_quantity : ReceivedQuantities]
        \cup [item_id : ItemIds \ POLines, received_quantity : {1}]

RECURSIVE SeqsUpTo(_, _)
SeqsUpTo(S, n) ==
    IF n = 0 THEN { << >> }
    ELSE LET shorter == SeqsUpTo(S, n - 1)
         IN shorter \cup { Append(q, x) : q \in { t \in shorter : Len(t) = n - 1 }, x \in S }

Batches == SeqsUpTo(ReceiptLine, 2)
SingleBatches == SeqsUpTo(ReceiptLine, 1)

RECURSIVE ReceiveLines(_, _)

\* a received quantity of one unit recorded on the line but not moved into stock
ReceiveLinesAboveOne(batch, st) ==
    IF batch = << >> THEN st
    ELSE LET item_data == Head(batch)
             l == item_data.item_id
             q == item_data.received_quantity
         IN IF l \notin POLines
            THEN ReceiveLines(Tail(batch), st)
            ELSE LET rq == [st.received_quantity EXCEPT ![l] = q]
                     added == StockRegisterAdd(st.stock, st.movements, st.unit_cost,
                                               LineIngredient(l), q, LineUnitCost(l),
                                               [tag |-> "PO", id |-> PONumber])
                 IN IF q > 1
                    THEN ReceiveLines(Tail(batch),
                            [received_quantity |-> rq, stock |-> added.stock,
                             movements |-> added.movements,
                             unit_cost |-> added.unit_cost])
                    ELSE ReceiveLines(Tail(batch),
                            [received_quantity |-> rq, stock |-> st.stock,
                             movements |-> st.movements,
                             unit_cost |-> st.unit_cost])

\* the loop ended at the first line that is not a line of the order
ReceiveLinesUntilBad(batch, st) ==
    IF batch = << >> THEN st
    ELSE LET item_data == Head(batch)
             l == item_data.item_id
             q == item_data.received_quantity
         IN IF l \notin POLines
            THEN st
            ELSE LET rq == [st.received_quantity EXCEPT ![l] = q]
                     added == StockRegisterAdd(st.stock, st.movements, st.unit_cost,
                                               LineIngredient(l), q, LineUnitCost(l),
                                               [tag |-> "PO", id |-> PONumber])
                 IN IF q > 0
                    THEN ReceiveLines(Tail(batch),
                            [received_quantity |-> rq, stock |-> added.stock,
                             movements |-> added.movements,
                             unit_cost |-> added.unit_cost])
                    ELSE ReceiveLines(Tail(batch),
                            [received_quantity |-> rq, stock |-> st.stock,
                             movements |-> st.movements,
                             unit_cost |-> st.unit_cost])

\* the movement created at the ingredient's present cost, not the line's
ReceiveLinesOldCost(batch, st) ==
    IF batch = << >> THEN st
    ELSE LET item_data == Head(batch)
             l == item_data.item_id
             q == item_data.received_quantity
         IN IF l \notin POLines
            THEN ReceiveLines(Tail(batch), st)
            ELSE LET rq == [st.received_quantity EXCEPT ![l] = q]
                     added == StockRegisterAdd(st.stock, st.movements, st.unit_cost,
                                               LineIngredient(l), q,
                                               st.unit_cost[LineIngredient(l)],
                                               [tag |-> "PO", id |-> PONumber])
                 IN IF q > 0
                    THEN ReceiveLines(Tail(batch),
                            [received_quantity |-> rq, stock |-> added.stock,
                             movements |-> added.movements,
                             unit_cost |-> added.unit_cost])
                    ELSE ReceiveLines(Tail(batch),
                            [received_quantity |-> rq, stock |-> st.stock,
                             movements |-> st.movements,
                             unit_cost |-> st.unit_cost])

\* views.py 834-859: the loop over received_items
ReceiveLines(batch, st) ==
    IF batch = << >> THEN st
    ELSE LET item_data == Head(batch)
             l == item_data.item_id
             q == item_data.received_quantity
         IN IF l \notin POLines
            THEN ReceiveLines(Tail(batch), st)
            ELSE LET rq == [st.received_quantity EXCEPT ![l] = q]
                     added == StockRegisterAdd(st.stock, st.movements, st.unit_cost,
                                               LineIngredient(l), q, LineUnitCost(l),
                                               [tag |-> "PO", id |-> PONumber])
                 IN IF q > 0
                    THEN ReceiveLines(Tail(batch),
                            [received_quantity |-> rq, stock |-> added.stock,
                             movements |-> added.movements,
                             unit_cost |-> added.unit_cost])
                    ELSE ReceiveLines(Tail(batch),
                            [received_quantity |-> rq, stock |-> st.stock,
                             movements |-> st.movements,
                             unit_cost |-> st.unit_cost])

\* one fully received line taken for the whole order
AllReceivedSome(rq) == \E l \in POLines : rq[l] >= LineQuantity(l)

\* views.py 861-865
AllReceived(rq) == \A l \in POLines : rq[l] >= LineQuantity(l)

\* views.py 829-872: PurchaseOrderViewSet.receive_items
ReceiveItems(batch) ==
    /\ nops < MaxOps
    /\ nops' = nops + 1
    /\ LET st == ReceiveLines(batch, [received_quantity |-> received_quantity,
                                      stock |-> stock, movements |-> movements,
                                      unit_cost |-> unit_cost])
       IN /\ received_quantity' = st.received_quantity
          /\ stock' = st.stock
          /\ unit_cost' = st.unit_cost
          /\ movements' = st.movements
          /\ po_status' = IF AllReceived(st.received_quantity) THEN "received" ELSE po_status
    /\ response' = [kind |-> "received"]
    /\ received_items' = batch
    /\ UNCHANGED << is_active, feedbacks, processed, order_status,
                    system_user, inst, pc, local, opening, requested,
                    deferred >>

(* ------------------------ failures and restarts ----------------------- *)
\* signals.py 99-117: StockMovement.objects.create raises after
\* ingredient.save(); the except clause ends the cake, the handler goes on
\* with the next line item
DeductCreateFails(w) ==
    /\ pc[w] = "create"
    /\ Goto(w, [item |-> Seek(inst[w].order, local[w].item + 1), ing |-> 1])
    /\ UNCHANGED << stock, movements, order_status, system_user, response,
                    received_quantity, po_status, nops, opening, requested,
                    is_active, feedbacks, received_items, unit_cost,
                    deferred >>

\* views.py 687-703: StockMovement.objects.create raises after
\* ingredient.save(); nothing catches it and the request ends in an error
ManualCreateFails(w) ==
    /\ pc[w] = "m_create"
    /\ response' = [kind |-> "server_error"]
    /\ pc' = [pc EXCEPT ![w] = "idle"]
    /\ local' = [local EXCEPT ![w] = NoLocal]
    /\ UNCHANGED << stock, movements, order_status, system_user, inst,
                    received_quantity, po_status, nops, opening, requested,
                    is_active, feedbacks, processed, received_items,
                    unit_cost, deferred >>

\* the worker's process stops inside a handler: its instance and its local
\* variables are gone, what it saved stays
Crash(w) ==
    /\ pc[w] # "idle"
    /\ pc' = [pc EXCEPT ![w] = "idle"]
    /\ local' = [local EXCEPT ![w] = NoLocal]
    /\ inst' = [inst EXCEPT ![w] = NoInst]
    /\ response' = NoResponse
    /\ UNCHANGED << stock, movements, order_status, system_user,
                    received_quantity, po_status, nops, opening, requested,
                    is_active, feedbacks, processed, received_items,
                    unit_cost, deferred >>

(* --------------------------- movement API ----------------------------- *)
\* the reference prefixes a client of the movement API writes
ApiReferences == {"ADJ", "SAMPLE"}

\* delete_sample_data.py 102-103: the reference prefixes the script matches
SampleReferences == {"SAMPLE", "TEST"}

\* StockMovementViewSet.perform_create: an 'in' movement posted by a client
MovementCreate(i, qty, tag) ==
    /\ nops < MaxOps
    /\ nops' = nops + 1
    /\ qty > 0
    /\ LET added == StockRegisterAdd(stock, movements, unit_cost, i, qty,
                                      unit_cost[i], [tag |-> tag, id |-> None])
       IN /\ stock' = added.stock
          /\ unit_cost' = added.unit_cost
          /\ movements' = added.movements
    /\ response' = [kind |-> "created"]
    /\ UNCHANGED << order_status, system_user, inst, pc, local,
                    received_quantity, po_status, opening, requested,
                    is_active, feedbacks, processed, received_items,
                    deferred >>

\* StockMovementViewSet is a ModelViewSet: PUT/PATCH on a movement
MovementUpdate(k, qty) ==
    /\ nops < MaxOps
    /\ nops' = nops + 1
    /\ k \in 1..Len(movements)
    /\ movements[k].quantity # qty
    /\ movements' = [movements EXCEPT ![k].quantity = qty]
    /\ response' = [kind |-> "updated"]
    /\ UNCHANGED << stock, order_status, system_user, inst, pc, local,
                    received_quantity, po_status, opening, requested,
                    is_active, feedbacks, processed, received_items,
                    unit_cost, deferred >>

\* the sequence s without its k-th element
Without(s, k) == SubSeq(s, 1, k - 1) \o SubSeq(s, k + 1, Len(s))

\* StockMovementViewSet is a ModelViewSet: DELETE on a movement
MovementDestroy(k) ==
    /\ nops < MaxOps
    /\ nops' = nops + 1
    /\ k \in 1..Len(movements)
    /\ movements' = Without(movements, k)
    /\ response' = [kind |-> "deleted"]
    /\ UNCHANGED << stock, order_status, system_user, inst, pc, local,
                    received_quantity, po_status, opening, requested,
                    is_active, feedbacks, processed, received_items,
                    unit_cost, deferred >>

\* delete_sample_data.py 100-110: sample_movements.delete()
DeleteSampleData ==
    /\ nops < MaxOps
    /\ nops' = nops + 1
    /\ movements' = SelectSeq(movements, LAMBDA m : m.reference.tag \notin SampleReferences)
    /\ response' = NoResponse
    /\ UNCHANGED << stock, order_status, system_user, inst, pc, local,
                    received_quantity, po_status, opening, requested,
                    is_active, feedbacks, processed, received_items,
                    unit_cost, deferred >>

(* ------------------------------ feedback ------------------------------ *)
\* feedback/models.py 22, 23, 57
MinMessageLength == 10
MaxMessageLength == 1000
LowRatingMinLength == 20

\* feedback/models.py 10-16: RATING_CHOICES
RatingChoices == {1, 2, 3, 4, 5}

\* a message is its length and whether it is free of repeated characters and
\* of the words models.py 50 lists
FeedbackMessages ==
    [length : {5, 9, 10, 15, 20, 1001}, plain : {TRUE}] \cup { [length |-> 20, plain |-> FALSE] }
FeedbackRatings == {0, 1, 3, 5, 6}
FeedbackUsers == {None, "alice"}

\* serializer.is_valid: the field validators of message and the choices of rating
SerializerValid(message, rating) ==
    /\ message.length >= MinMessageLength
    /\ message.length <= MaxMessageLength
    /\ rating \in RatingChoices

\* Feedback.clean, called by Feedback.save: models.py 38-60
CleanValid(message, rating) ==
    /\ message.plain
    /\ ~ (rating <= 2 /\ message.length < LowRatingMinLength)

\* FeedbackViewSet.create, views.py 31-65: both the serializer's and the
\* model's validation error are caught by `except Exception`
FeedbackCreate(user, message, rating) ==
    /\ nops < MaxOps
    /\ nops' = nops + 1
    /\ IF SerializerValid(message, rating) /\ CleanValid(message, rating)
       THEN /\ feedbacks' = Append(feedbacks,
                                [user |-> user, message |-> message, rating |-> rating])
            /\ response' = [kind |-> "created"]
       ELSE /\ feedbacks' = feedbacks
            /\ response' = [kind |-> "server_error"]
    /\ UNCHANGED << stock, movements, order_status, system_user, inst, pc,
                    local, received_quantity, po_status, opening, requested,
                    is_active, processed, received_items, unit_cost,
                    deferred >>

(* ------------------------ availability checker ------------------------ *)
\* views.py 903-915: the list of ingredients short of the required quantity
\* the comparison made inclusive
RECURSIVE UnavailableInclusive(_, _, _)
UnavailableInclusive(ris, servings, st) ==
    IF ris = << >> THEN << >>
    ELSE LET recipe_ingredient == Head(ris)
             required_quantity == recipe_ingredient.quantity * servings
             available_quantity == st[recipe_ingredient.ingredient]
             rest == UnavailableInclusive(Tail(ris), servings, st)
         IN IF available_quantity <= required_quantity
            THEN << [ingredient |-> recipe_ingredient.ingredient,
                     required |-> required_quantity,
                     available |-> available_quantity,
                     shortage |-> required_quantity - available_quantity] >> \o rest
            ELSE rest

RECURSIVE Unavailable(_, _, _)
Unavailable(ris, servings, st) ==
    IF ris = << >> THEN << >>
    ELSE LET recipe_ingredient == Head(ris)
             required_quantity == recipe_ingredient.quantity * servings
             available_quantity == st[recipe_ingredient.ingredient]
             rest == Unavailable(Tail(ris), servings, st)
         IN IF available_quantity < required_quantity
            THEN << [ingredient |-> recipe_ingredient.ingredient,
                     required |-> required_quantity,
                     available |-> available_quantity,
                     shortage |-> required_quantity - available_quantity] >> \o rest
            ELSE rest

\* views.py 898-922: RecipeViewSet.check_availability
CheckAvailability(r, servings) ==
    /\ nops < MaxOps
    /\ nops' = nops + 1
    /\ LET unavailable_ingredients == Unavailable(RecipeIngredients(r), servings, stock)
       IN response' = [kind |-> "availability", recipe |-> r, servings |-> servings,
                       available |-> (Len(unavailable_ingredients) = 0),
                       unavailable_ingredients |-> unavailable_ingredients]
    /\ UNCHANGED << is_active, feedbacks, processed, stock, movements,
                    order_status, system_user, inst, pc, local,
                    received_quantity, po_status, opening, requested,
                    received_items, unit_cost, deferred >>

(* ------------------------------ accounts ------------------------------ *)
\* an admin or inventory manager account comes into existence
CreateSystemUser ==
    /\ ~system_user
    /\ system_user' = TRUE
    /\ UNCHANGED << is_active, feedbacks, processed, stock, movements,
                    order_status, inst, pc, local, response,
                    received_quantity, po_status, nops, opening, requested,
                    received_items, unit_cost, deferred >>

(* ---------------------------- specification --------------------------- *)
Next ==
    \/ \E w \in Workers, o \in Orders, s \in StatusInputs : UpdateStatus(w, o, s)
    \/ \E w \in Workers, s \in StatusInputs : Resave(w, s)
    \/ \E w \in Workers : DeductRead(w)
    \/ \E w \in Workers : DeductSave(w)
    \/ \E w \in Workers : DeductCreate(w)
    \/ \E w \in Workers, i \in Ingredients, amount \in Amounts : ManualDeduct(w, i, amount)
    \/ \E w \in Workers : ManualSave(w)
    \/ \E w \in Workers : ManualCreate(w)
    \/ \E batch \in SingleBatches : ReceiveItems(batch)
    \/ \E r \in Recipes, servings \in Servings : CheckAvailability(r, servings)
    \/ CreateSystemUser

Spec == Init /\ [][Next]_vars

\* one request at a time: a single worker, and receipts only between its requests
AllIdle == \A w \in Workers : pc[w] = "idle"

NextSeq ==
    \/ \E o \in Orders, s \in StatusInputs : UpdateStatus("w1", o, s)
    \/ \E s \in StatusInputs : Resave("w1", s)
    \/ DeductRead("w1")
    \/ DeductSave("w1")
    \/ DeductCreate("w1")
    \/ \E i \in Ingredients, amount \in Amounts : ManualDeduct("w1", i, amount)
    \/ ManualSave("w1")
    \/ ManualCreate("w1")
    \/ AllIdle /\ \E batch \in SingleBatches : ReceiveItems(batch)
    \/ AllIdle /\ \E r \in Recipes, servings \in Servings : CheckAvailability(r, servings)
    \/ CreateSystemUser

SpecSeq == Init /\ [][NextSeq]_vars

\* the deduction paths alone, interleaved: no receipt and no availability check
NextConsume ==
    \/ \E w \in Workers, o \in Orders, s \in StatusInputs : UpdateStatus(w, o, s)
    \/ \E w \in Workers, s \in StatusInputs : Resave(w, s)
    \/ \E w \in Workers : DeductRead(w)
    \/ \E w \in Workers : DeductSave(w)
    \/ \E w \in Workers : DeductCreate(w)
    \/ \E w \in Workers, i \in Ingredients, amount \in Amounts : ManualDeduct(w, i, amount)
    \/ \E w \in Workers : ManualSave(w)
    \/ \E w \in Workers : ManualCreate(w)
    \/ CreateSystemUser

SpecConsume == Init /\ [][NextConsume]_vars

\* the receipt endpoint alone, one request after another, whole batches
NextReceive == \E batch \in Batches : ReceiveItems(batch)

SpecReceive == Init /\ [][NextReceive]_vars

\* the manual deduction endpoint and the ingredient catalogue, one request at a time
NextManual ==
    \/ \E i \in Ingredients, amount \in Amounts : ManualDeduct("w1", i, amount)
    \/ ManualSave("w1")
    \/ ManualCreate("w1")
    \/ AllIdle /\ \E i \in Ingredients, b \in BOOLEAN : SetActive(i, b)

SpecManual == Init /\ [][NextManual]_vars

\* every operation that writes the movement table, one request at a time
NextLedger ==
    \/ \E i \in Ingredients, amount \in Amounts : ManualDeduct("w1", i, amount)
    \/ ManualSave("w1")
    \/ ManualCreate("w1")
    \/ AllIdle /\ \E batch \in SingleBatches : ReceiveItems(batch)
    \/ AllIdle /\ \E i \in Ingredients, qty \in ReceivedQuantities, tag \in ApiReferences :
                     MovementCreate(i, qty, tag)
    \/ AllIdle /\ \E k \in 1..Len(movements), qty \in ReceivedQuantities : MovementUpdate(k, qty)
    \/ AllIdle /\ \E k \in 1..Len(movements) : MovementDestroy(k)
    \/ AllIdle /\ DeleteSampleData

SpecLedger == Init /\ [][NextLedger]_vars

\* the feedback create endpoint
NextFeedback ==
    \E user \in FeedbackUsers, message \in FeedbackMessages, rating \in FeedbackRatings :
        FeedbackCreate(user, message, rating)

SpecFeedback == Init /\ [][NextFeedback]_vars

\* one request at a time, with failing movement writes and process stops
NextFail ==
    \/ \E o \in Orders, s \in StatusInputs : UpdateStatus("w1", o, s)
    \/ \E s \in StatusInputs : Resave("w1", s)
    \/ DeductRead("w1")
    \/ DeductSave("w1")
    \/ DeductCreate("w1")
    \/ DeductCreateFails("w1")
    \/ \E i \in Ingredients, amount \in Amounts : ManualDeduct("w1", i, amount)
    \/ ManualSave("w1")
    \/ ManualCreate("w1")
    \/ ManualCreateFails("w1")
    \/ Crash("w1")
    \/ CreateSystemUser

SpecFail == Init /\ [][NextFail]_vars

\* status updates with every status an order can take, one request at a time
NextStatus ==
    \/ \E o \in Orders, s \in OrderStatuses : UpdateStatus("w1", o, s)
    \/ \E s \in OrderStatuses : Resave("w1", s)
    \/ DeductRead("w1")
    \/ DeductSave("w1")
    \/ DeductCreate("w1")
    \/ CreateSystemUser

SpecStatus == Init /\ [][NextStatus]_vars

TypeOK ==
    /\ stock \in [Ingredients -> Int]
    /\ pc \in [Workers -> {"idle", "read", "save", "create", "m_save", "m_create"}]
    /\ order_status \in [Orders -> OrderStatuses]


(* ------------------------------- ledger ------------------------------- *)
\* the movements of one ingredient, in creation order
MovementsOf(i) == SelectSeqBy(movements, i)

Signed(m) == IF m.movement_type = "in" THEN m.quantity ELSE 0 - m.quantity

RECURSIVE Replay(_, _)
Replay(ms, balance) ==
    IF ms = << >> THEN balance ELSE Replay(Tail(ms), balance + Signed(Head(ms)))

RECURSIVE SumQuantity(_)
SumQuantity(ms) == IF ms = << >> THEN 0 ELSE Head(ms).quantity + SumQuantity(Tail(ms))

OrderRef(o) == [tag |-> "ORDER", id |-> o]
IsOrderOut(m) == m.movement_type = "out" /\ m.reference.tag = "ORDER"

\* perUnitQuantity x quantityOrdered of the recipe entry at loop position (k, j)
Required(o, k, j) ==
    CakeIngredients(OrderItems(o)[k].cake)[j].quantity * OrderItems(o)[k].quantity

(* ------------------------------- claims ------------------------------- *)

\* C1: every ingredient's current_stock is >= 0 in every reachable state,
\* under any interleaving of order deductions, manual deductions and receipts.
C1_StockNeverNegative == \A i \in Ingredients : stock[i] >= 0

\* C1 witness: after a manual deduction, an order deduction that asked for
\* more than was left has driven the ingredient to zero.
C1_Witness ==
    \E i \in Ingredients :
        /\ stock[i] = 0
        /\ \E k \in 1..Len(movements) :
              /\ movements[k].ingredient = i
              /\ movements[k].reference.tag = "MANUAL"
        /\ \E k \in 1..Len(movements) :
              /\ movements[k].ingredient = i
              /\ IsOrderOut(movements[k])
              /\ movements[k].new_stock = 0
              /\ movements[k].quantity < requested[i]

\* C2: replaying an ingredient's movements in creation order from balance 0
\* gives exactly its current_stock.
C2_ReplayGivesStock ==
    \A i \in Ingredients : Replay(MovementsOf(i), 0) = stock[i]

\* The same replay started from the balance the ingredient was created with:
\* it holds with one request at a time and fails when deductions interleave.
ReplayFromOpeningGivesStock ==
    \A i \in Ingredients :
        AllIdle => Replay(MovementsOf(i), opening[i]) = stock[i]

\* C3: in an ingredient's movements in creation order, new_stock of movement k
\* equals previous_stock of movement k+1.
C3_MovementsChain ==
    \A i \in Ingredients :
        LET ms == MovementsOf(i)
        IN \A k \in 1..(Len(ms) - 1) : ms[k].new_stock = ms[k + 1].previous_stock

\* C4: every recorded movement has quantity > 0 and
\* new_stock = previous_stock + quantity for 'in', previous_stock - quantity
\* for 'out' and 'waste'.
C4_MovementConsistent ==
    \A k \in 1..Len(movements) :
        /\ movements[k].quantity > 0
        /\ movements[k].movement_type \in {"in", "out", "waste"}
        /\ movements[k].new_stock = movements[k].previous_stock + Signed(movements[k])

\* C4 witness: the ledger holds a receipt movement and an order movement.
C4_Witness ==
    /\ \E k \in 1..Len(movements) : movements[k].movement_type = "in"
    /\ \E k \in 1..Len(movements) : IsOrderOut(movements[k])

\* C5: an order has at most one deduction movement per recipe ingredient,
\* however often its status is saved as confirmed or preparing (each
\* ingredient occurs once in the recipes of an order here).
C5_OneDeductionSetPerOrder ==
    \A o \in Orders, i \in Ingredients :
        Cardinality({ k \in 1..Len(movements) :
                        /\ movements[k].reference = OrderRef(o)
                        /\ movements[k].ingredient = i }) <= 1

\* C6: once an order has been marked processed, a save of that order from a
\* newly loaded instance never starts the deduction loop again.
C6_MarkerSurvivesReload ==
    [][\A w \in Workers :
          (pc[w] = "idle" /\ pc'[w] = "read")
              => ~ \E v \in Workers : /\ inst[v].order = inst'[w].order
                                      /\ inst[v].deducted]_vars

\* C7: when the deductions of different orders against an ingredient have
\* together asked for more than its opening balance and nothing else has
\* moved it, the quantities recorded as applied sum to exactly the opening
\* balance and the ingredient ends at zero.
C7_NoUnitCountedTwice ==
    \A i \in Ingredients :
        ( /\ AllIdle
          /\ \A k \in 1..Len(MovementsOf(i)) : IsOrderOut(MovementsOf(i)[k])
          /\ \A k, n \in 1..Len(MovementsOf(i)) :
                 k # n => MovementsOf(i)[k].reference # MovementsOf(i)[n].reference
          /\ requested[i] > opening[i] )
        => /\ SumQuantity(MovementsOf(i)) = opening[i]
           /\ stock[i] = 0


\* C8: an order deduction of requested quantity r that reads balance s plans
\* and writes s - min(r, s), and records a movement whose quantity is the
\* applied min(r, s), with previous_stock s and new_stock s - min(r, s).
C8_OrderDeductionClamped ==
    [][\A w \in Workers :
          LET r == Required(inst[w].order, local[w].item, local[w].ing)
          IN /\ (pc[w] = "read" /\ pc'[w] = "save")
                  => /\ local'[w].previous_stock = stock[local'[w].ingredient]
                     /\ local'[w].needed = Min(r, local'[w].previous_stock)
             /\ (pc[w] = "save" /\ pc'[w] = "create")
                  => stock'[local[w].ingredient] =
                         local[w].previous_stock - Min(r, local[w].previous_stock)
             /\ (pc[w] = "create" /\ pc'[w] # "create")
                  => /\ Len(movements') = Len(movements) + 1
                     /\ LET m == movements'[Len(movements')]
                        IN /\ m.previous_stock = local[w].previous_stock
                           /\ m.quantity = Min(r, m.previous_stock)
                           /\ m.new_stock = m.previous_stock - m.quantity
                           /\ (r > m.previous_stock => m.new_stock = 0)]_vars

\* C8 witness: an order movement recorded less than the recipe asked for.
C8_Witness ==
    \E k \in 1..Len(movements) :
        /\ IsOrderOut(movements[k])
        /\ movements[k].ingredient = "Flour"
        /\ movements[k].previous_stock = 1
        /\ movements[k].quantity = 1
        /\ movements[k].new_stock = 0

\* C9: with one request at a time, a receipt of q directly followed by a
\* deduction of q leaves two movements that chain, the second ending at the
\* balance before the receipt, which is then the current_stock again.
C9_AddThenDeductRoundTrip ==
    \A i \in Ingredients :
        LET ms == MovementsOf(i)
        IN \A k \in 1..(Len(ms) - 1) :
              ( /\ ms[k].movement_type = "in"
                /\ ms[k + 1].movement_type = "out"
                /\ ms[k + 1].quantity = ms[k].quantity )
              => /\ ms[k].new_stock = ms[k + 1].previous_stock
                 /\ ms[k + 1].new_stock = ms[k].previous_stock
                 /\ (k + 1 = Len(ms) /\ AllIdle => stock[i] = ms[k].previous_stock)

\* C9 witness: a receipt of 2 followed by a finished deduction of 2.
C9_Witness ==
    /\ AllIdle
    /\ \E i \in Ingredients :
          LET ms == MovementsOf(i)
          IN /\ Len(ms) = 2
             /\ ms[1].movement_type = "in" /\ ms[1].quantity = 2
             /\ ms[2].movement_type = "out" /\ ms[2].quantity = 2
             /\ stock[i] = opening[i]

\* the recipe entries whose ingredient is below quantity x servings
ShortEntries(r, servings) ==
    { j \in 1..Len(RecipeIngredients(r)) :
        stock[RecipeIngredients(r)[j].ingredient]
            < RecipeIngredients(r)[j].quantity * servings }

\* C10: check_availability answers available = true iff no recipe ingredient
\* has current_stock below quantity x servings, and lists exactly the short
\* ingredients, each with required, available and shortage = required - available.
C10_AvailabilityExact ==
    [][(nops' # nops /\ response'.kind = "availability")
          => LET short == ShortEntries(response'.recipe, response'.servings)
                 listed == response'.unavailable_ingredients
                 ris == RecipeIngredients(response'.recipe)
             IN /\ response'.available <=> (short = {})
                /\ Len(listed) = Cardinality(short)
                /\ { listed[n] : n \in 1..Len(listed) } =
                     { [ingredient |-> ris[j].ingredient,
                        required |-> ris[j].quantity * response'.servings,
                        available |-> stock[ris[j].ingredient],
                        shortage |-> ris[j].quantity * response'.servings
                                       - stock[ris[j].ingredient]] : j \in short }]_vars

\* C10 witness: one ingredient short, the other sufficient.
C10_Witness ==
    /\ response.kind = "availability"
    /\ ~ response.available
    /\ Len(response.unavailable_ingredients) = 1
    /\ response.unavailable_ingredients[1].shortage > 0
    /\ response.unavailable_ingredients[1].available > 0


(* --------------------------- procurement ------------------------------ *)
\* the 'in' movements of ingredient i
InMovementsOf(i) == SelectSeq(MovementsOf(i), LAMBDA m : m.movement_type = "in")

\* C11: a purchase order has status 'received' only if every one of its
\* lines has received-quantity >= ordered-quantity, also after a later
\* receive that lowers a line's received-quantity.
C11_ReceivedOnlyIfAllLinesReceived ==
    po_status = "received" => AllReceived(received_quantity)

\* C12: for every purchase-order line, received-quantity <= ordered-quantity.
C12_ReceivedWithinOrdered ==
    \A l \in POLines : received_quantity[l] <= LineQuantity(l)

\* some line of the order is fully received and some line is short
PartiallyReceived(rq) ==
    /\ \E l \in POLines : rq[l] >= LineQuantity(l)
    /\ \E l \in POLines : rq[l] < LineQuantity(l)

\* batch carries a full quantity for one of the order's lines
FullyReceivesSomeLine(batch) ==
    \E n \in 1..Len(batch) :
        /\ batch[n].item_id \in POLines
        /\ batch[n].received_quantity >= LineQuantity(batch[n].item_id)
        /\ \A m \in (n + 1)..Len(batch) : batch[m].item_id # batch[n].item_id

\* C13 as stated: a receipt that fully receives some lines but leaves at
\* least one line short leaves the purchase order 'partially-received'.
C13_PartialReceiptMarksPartial ==
    [][( /\ ReceiveItems(received_items')
         /\ FullyReceivesSomeLine(received_items')
         /\ PartiallyReceived(received_quantity') )
          => po_status' = "partially-received"]_vars

\* C13 amended: a receipt that fully receives some lines but leaves at
\* least one line short leaves the purchase order's status as it was.
C13_PartialReceiptKeepsStatus ==
    [][( /\ ReceiveItems(received_items')
         /\ FullyReceivesSomeLine(received_items')
         /\ PartiallyReceived(received_quantity') )
          => po_status' = po_status]_vars

\* C13 witness: Flour fully received, Eggs not, the order still 'confirmed'.
C13_Witness ==
    /\ response.kind = "received"
    /\ received_quantity["L1"] = LineQuantity("L1")
    /\ received_quantity["L2"] < LineQuantity("L2")
    /\ Len(InMovementsOf("Flour")) = 1
    /\ po_status = "confirmed"

\* C14: after a first receipt of part of a line (all other lines fully
\* received), a second receipt carrying the remainder for that line brings
\* the purchase order to 'received', and exactly two 'in' movements exist
\* for the ingredient, their quantities summing to the ordered quantity.
C14_SecondReceiptCompletes ==
    [][\A l \in POLines, q \in ReceivedQuantities :
          ( /\ ReceiveItems(<< [item_id |-> l, received_quantity |-> q] >>)
            /\ po_status # "received"
            /\ q > 0 /\ received_quantity[l] > 0
            /\ received_quantity[l] + q = LineQuantity(l)
            /\ \A k \in POLines \ {l} : received_quantity[k] >= LineQuantity(k)
            /\ Len(InMovementsOf(LineIngredient(l))) = 1
            /\ InMovementsOf(LineIngredient(l))[1].quantity = received_quantity[l] )
          => /\ po_status' = "received"
             /\ LET ins == SelectSeq(SelectSeqBy(movements', LineIngredient(l)),
                                     LAMBDA m : m.movement_type = "in")
                IN /\ Len(ins) = 2
                   /\ SumQuantity(ins) = LineQuantity(l)]_vars

\* C15: calling receive_items a second time with the same (line id,
\* received quantity) leaves the line's received-quantity, the ingredient's
\* current_stock and the movement ledger as they were after the first call.
C15_ReceiveIdempotent ==
    [][\A l \in POLines, q \in ReceivedQuantities :
          ( /\ ReceiveItems(<< [item_id |-> l, received_quantity |-> q] >>)
            /\ response.kind = "received"
            /\ received_quantity[l] = q )
          => UNCHANGED << received_quantity, stock, movements >>]_vars

(* -------------------------- manual deduction -------------------------- *)
\* C16: a manual deduction request is rejected if amount <= 0 or if the
\* ingredient is inactive, and a rejected request changes neither
\* current_stock nor the movement ledger; an accepted request returns the
\* applied amount and the updated balance.
C16_ManualDeductRejects ==
    [][\A w \in Workers :
          /\ \A i \in Ingredients, amount \in Amounts :
                (ManualDeduct(w, i, amount) /\ (amount <= 0 \/ ~ is_active[i]))
                => /\ response'.kind = "bad_request"
                   /\ pc'[w] = "idle"
                   /\ UNCHANGED << stock, movements >>
          /\ ManualCreate(w)
                => /\ response'.kind = "deducted"
                   /\ response'.amount = local[w].needed
                   /\ response'.new_stock = stock'[local[w].ingredient]]_vars

(* --------------------------- movement ledger -------------------------- *)
\* C17: the movement ledger is append-only: once a movement is recorded, no
\* operation the system exposes (movement API, receipt, deduction,
\* maintenance scripts) ever updates or deletes it.
C17_LedgerAppendOnly ==
    [][/\ Len(movements') >= Len(movements)
       /\ SubSeq(movements', 1, Len(movements)) = movements]_vars

(* ------------------------------ feedback ------------------------------ *)
\* C18: feedback with a message shorter than 10 characters or a rating
\* outside 1..5 is rejected with a client error and stores no Feedback
\* record; valid feedback submitted anonymously or by an authenticated user
\* is stored exactly once, with user = none or that user.
C18_FeedbackCreate ==
    [][\A user \in FeedbackUsers, message \in FeedbackMessages, rating \in FeedbackRatings :
          FeedbackCreate(user, message, rating)
          => /\ (message.length < MinMessageLength \/ rating \notin RatingChoices)
                   => /\ response'.kind = "bad_request"
                      /\ feedbacks' = feedbacks
             /\ (SerializerValid(message, rating) /\ CleanValid(message, rating))
                   => /\ response'.kind = "created"
                      /\ feedbacks' = Append(feedbacks,
                            [user |-> user, message |-> message, rating |-> rating])]_vars

\* what holds of the create endpoint: rejected feedback stores nothing and valid
\* feedback is stored once with its user
FeedbackStoredOnce ==
    [][\A user \in FeedbackUsers, message \in FeedbackMessages, rating \in FeedbackRatings :
          FeedbackCreate(user, message, rating)
          => /\ (message.length < MinMessageLength \/ rating \notin RatingChoices)
                   => /\ response'.kind # "created"
                      /\ feedbacks' = feedbacks
             /\ (SerializerValid(message, rating) /\ CleanValid(message, rating))
                   => /\ response'.kind = "created"
                      /\ feedbacks' = Append(feedbacks,
                            [user |-> user, message |-> message, rating |-> rating])]_vars

(* ------------------------ failures and restarts ----------------------- *)
\* the movements of ingredient i of the given type
MovementsOfType(i, type) == SelectSeq(MovementsOf(i), LAMBDA m : m.movement_type = type)

\* C19: the balance write and the movement append of one deduction are one
\* atomic unit: also when the movement write fails or the process stops
\* between the two writes, no current_stock is changed by a deduction for
\* which no movement was recorded.
C19_DeductionAtomic ==
    AllIdle =>
       \A i \in Ingredients :
          opening[i] + SumQuantity(MovementsOfType(i, "in")) - stock[i]
             = SumQuantity(MovementsOfType(i, "out"))

\* the 'out' movements order o has on ingredient i
OrderOuts(o, i) ==
    { k \in 1..Len(movements) :
        /\ IsOrderOut(movements[k])
        /\ movements[k].reference = OrderRef(o)
        /\ movements[k].ingredient = i }

\* C20: when the process stops after ledger writes of an order's deduction
\* but before the order is marked processed, a retry of the trigger never
\* deducts the order's ingredients a second time: no ingredient carries two
\* 'out' movements for the same order line.
C20_AtMostOnceAcrossCrash ==
    \A o \in Orders \ processed, i \in Ingredients : Cardinality(OrderOuts(o, i)) <= 1

(* --------------------------- order trigger ---------------------------- *)
NonQualifying == {"pending", "ready", "out_for_delivery", "delivered", "cancelled"}

\* C21: saving an order whose status is outside {confirmed, preparing}
\* leaves every current_stock and the whole ledger unchanged and starts no
\* deduction; cancelling a processed order reverses and adds nothing.
C21_NonQualifyingSaveChangesNothing ==
    [][\A w \in Workers, s \in NonQualifying :
          ((\E o \in Orders : UpdateStatus(w, o, s)) \/ Resave(w, s))
          => /\ UNCHANGED << stock, movements, processed >>
             /\ pc'[w] = "idle"]_vars

\* C21 witness: a processed order, its Flour deducted, has been cancelled.
C21_Witness ==
    \E o \in Orders :
        /\ AllIdle
        /\ o \in processed
        /\ order_status[o] = "cancelled"
        /\ OrderOuts(o, "Flour") # {}
        /\ stock["Flour"] < opening["Flour"]

\* the entries of line item k of order o
EntriesOf(o, k) == CakeIngredients(OrderItems(o)[k].cake)

\* the line items after k whose cake lists ingredients
LaterItems(o, k) == { n \in (k + 1)..Len(OrderItems(o)) : EntriesOf(o, n) # << >> }

\* worker w, done with entry (k, j) of its order, stands at the entry that
\* follows it in the order's line items, or has ended and marked the instance
MovesOn(w, k, j) ==
    LET o == inst[w].order
    IN IF j < Len(EntriesOf(o, k))
       THEN /\ pc'[w] = "read"
            /\ local'[w].item = k /\ local'[w].ing = j + 1
       ELSE IF LaterItems(o, k) = {}
            THEN /\ pc'[w] = "idle"
                 /\ inst'[w].deducted
                 /\ o \in processed'
            ELSE /\ pc'[w] = "read"
                 /\ local'[w].ing = 1
                 /\ local'[w].item \in LaterItems(o, k)
                 /\ \A n \in LaterItems(o, k) : local'[w].item <= n

\* C22: when the trigger fires for an order every line item is processed,
\* and for every recipe ingredient that resolves to a known ingredient with
\* positive stock exactly one 'out' movement is appended whose reference
\* carries the order and whose requested quantity is
\* perUnitQuantity x quantityOrdered, clamped to the balance read.
C22_OneMovementPerIngredient ==
    [][\A w \in Workers :
          LET o == inst[w].order
              k == local[w].item
              j == local[w].ing
          IN /\ DeductRead(w)
                  => LET entry == EntriesOf(o, k)[j]
                         total == entry.quantity * OrderItems(o)[k].quantity
                     IN IF /\ entry.name \in Ingredients
                           /\ entry.quantity > 0
                           /\ stock[entry.name] > 0
                        THEN /\ pc'[w] = "save"
                             /\ local'[w].item = k /\ local'[w].ing = j
                             /\ local'[w].ingredient = entry.name
                             /\ requested'[entry.name] = requested[entry.name] + total
                             /\ local'[w].needed = Min(total, stock[entry.name])
                        ELSE MovesOn(w, k, j)
             /\ DeductSave(w)
                  => /\ pc'[w] = "create"
                     /\ movements' = movements
             /\ DeductCreate(w)
                  => /\ Len(movements') = Len(movements) + 1
                     /\ SubSeq(movements', 1, Len(movements)) = movements
                     /\ LET m == movements'[Len(movements')]
                        IN /\ m.movement_type = "out"
                           /\ m.ingredient = local[w].ingredient
                           /\ m.reference = OrderRef(o)
                           /\ m.quantity = Min(Required(o, k, j), local[w].previous_stock)
                     /\ MovesOn(w, k, j)]_vars

\* C22 witness: order o1 is processed with one movement for each of its two
\* recipe ingredients.
C22_Witness ==
    /\ AllIdle
    /\ "o1" \in processed
    /\ Cardinality(OrderOuts("o1", "Flour")) = 1
    /\ Cardinality(OrderOuts("o1", "Eggs")) = 1
    /\ \E k \in OrderOuts("o1", "Eggs") : movements[k].quantity = Required("o1", 1, 2)

\* worker w reads an entry of a known ingredient for which the order asks
\* more than the balance holds
ReadsShortage(w) ==
    /\ DeductRead(w)
    /\ LET entry == EntriesOf(inst[w].order, local[w].item)[local[w].ing]
       IN /\ entry.name \in Ingredients
          /\ entry.quantity > 0
          /\ entry.quantity * OrderItems(inst[w].order)[local[w].item].quantity
                > stock[entry.name]

\* something the caller of the save can read carries a warning
WarningObservable(w) ==
    \/ "warnings" \in DOMAIN inst'[w]
    \/ "warnings" \in DOMAIN local'[w]
    \/ "warnings" \in DOMAIN response'

\* C23: a shortage on one ingredient is not a failure: the remaining
\* ingredients and line items are still deducted, the order is still marked
\* processed, and the shortage is recorded as a warning attached to the
\* order's processing outcome that the caller can observe.
C23_ShortageRecordedAsWarning ==
    [][\A w \in Workers :
          ReadsShortage(w)
          => /\ \/ pc'[w] = "save"
                \/ MovesOn(w, local[w].item, local[w].ing)
             /\ WarningObservable(w)]_vars

\* The first half alone: after a shortage the handler deducts what is left
\* of the ingredient, or nothing when the balance is zero, and goes on.
ShortageIsNotFailure ==
    [][\A w \in Workers :
          ReadsShortage(w)
          => LET name == EntriesOf(inst[w].order, local[w].item)[local[w].ing].name
             IN IF stock[name] > 0
                THEN pc'[w] = "save" /\ local'[w].new_stock = 0
                ELSE MovesOn(w, local[w].item, local[w].ing)]_vars

\* C24: a line item whose cake has no recipe, and a recipe entry whose
\* ingredient name resolves to no known ingredient, are skipped without any
\* stock or ledger change, and every other ingredient and line item of the
\* order is still deducted and the order is still marked processed.
C24_MissingRecipeAndIngredientSkipped ==
    [][\A w \in Workers :
          /\ (pc[w] = "idle" /\ pc'[w] = "read")
                => /\ local'[w].ing = 1
                   /\ local'[w].item \in LaterItems(inst'[w].order, 0)
                   /\ \A n \in LaterItems(inst'[w].order, 0) : local'[w].item <= n
                   /\ UNCHANGED << stock, movements >>
          /\ ( /\ DeductRead(w)
               /\ EntriesOf(inst[w].order, local[w].item)[local[w].ing].name
                     \notin Ingredients )
                => /\ UNCHANGED << stock, movements, requested >>
                   /\ MovesOn(w, local[w].item, local[w].ing)]_vars

\* C24 witness: order o2 (a cake without recipe, then a cake whose first
\* entry is an unknown ingredient) is processed with its Flour deducted and
\* nothing else moved.
C24_Witness ==
    /\ AllIdle
    /\ "o2" \in processed
    /\ Len(movements) = 1
    /\ movements[1].reference = OrderRef("o2")
    /\ movements[1].ingredient = "Flour"
    /\ movements[1].quantity = Required("o2", 2, 2)
    /\ stock["Eggs"] = opening["Eggs"]

\* C25: a failure while deducting one ingredient of an order is isolated:
\* every other resolvable ingredient of the same line item and of the other
\* line items is still deducted, and the failure is reported rather than
\* later ingredients of the line being left undeducted while the order is
\* marked processed.
C25_FailureIsolated ==
    [][\A w \in Workers :
          DeductCreateFails(w)
          => /\ MovesOn(w, local[w].item, local[w].ing)
             /\ WarningObservable(w)]_vars


(* ------------------------------ receipts ------------------------------ *)
\* the lines of a batch that belong to the order and carry a quantity > 0
AddedLines(batch) ==
    SelectSeq(batch, LAMBDA x : x.item_id \in POLines /\ x.received_quantity > 0)

\* the quantity the first n lines of lines add to ingredient i
RECURSIVE AddedTo(_, _, _)
AddedTo(lines, n, i) ==
    IF n = 0 THEN 0
    ELSE AddedTo(lines, n - 1, i)
           + (IF LineIngredient(lines[n].item_id) = i THEN lines[n].received_quantity ELSE 0)

\* C26: for every line of a receipt that belongs to the purchase order and
\* has received quantity q > 0, receive_items increases the ingredient's
\* current_stock by exactly q and appends exactly one 'in' movement of
\* quantity q with reference 'PO #<po number>' whose previous_stock and
\* new_stock are the balances before and after the add.
C26_ReceiptAddsPerLine ==
    [][ReceiveItems(received_items')
          => LET lines == AddedLines(received_items')
             IN /\ Len(movements') = Len(movements) + Len(lines)
                /\ SubSeq(movements', 1, Len(movements)) = movements
                /\ \A i \in Ingredients :
                      stock'[i] = stock[i] + AddedTo(lines, Len(lines), i)
                /\ \A n \in 1..Len(lines) :
                      LET m == movements'[Len(movements) + n]
                          i == LineIngredient(lines[n].item_id)
                          before == stock[i] + AddedTo(lines, n - 1, i)
                      IN /\ m.ingredient = i
                         /\ m.movement_type = "in"
                         /\ m.quantity = lines[n].received_quantity
                         /\ m.reference = [tag |-> "PO", id |-> PONumber]
                         /\ m.previous_stock = before
                         /\ m.new_stock = before + lines[n].received_quantity]_vars

\* C26 witness: one receipt has added Flour twice and Eggs not at all.
C26_Witness ==
    /\ nops = 1
    /\ response.kind = "received"
    /\ Len(received_items) = 2
    /\ Len(movements) = 2
    /\ movements[1].ingredient = "Flour" /\ movements[2].ingredient = "Flour"
    /\ movements[2].previous_stock = movements[1].new_stock
    /\ stock["Flour"] = opening["Flour"] + movements[1].quantity + movements[2].quantity

\* the lines of a batch that are lines of the purchase order
KnownLines(batch) == SelectSeq(batch, LAMBDA x : x.item_id \in POLines)

\* C28: in a receipt batch a line id that is unknown or belongs to another
\* purchase order is skipped with no change to any line, stock or ledger on
\* its account, every valid line of the batch, before or after the bad one,
\* is still applied, and the batch as a whole does not fail.
C28_BadLineSkipped ==
    [][( /\ ReceiveItems(received_items')
         /\ KnownLines(received_items') # received_items' )
          => LET st == ReceiveLines(KnownLines(received_items'),
                          [received_quantity |-> received_quantity,
                           stock |-> stock, movements |-> movements,
                           unit_cost |-> unit_cost])
             IN /\ received_quantity' = st.received_quantity
                /\ stock' = st.stock
                /\ movements' = st.movements
                /\ Len(movements') = Len(movements)
                                        + Len(AddedLines(received_items'))
                /\ response'.kind = "received"]_vars

\* C28 witness: a batch whose first line belongs to another order and whose
\* second line is a line of this order has been received.
C28_Witness ==
    /\ nops = 1
    /\ response.kind = "received"
    /\ Len(received_items) = 2
    /\ received_items[1].item_id = "L9"
    /\ received_items[2].item_id = "L1"
    /\ received_items[2].received_quantity > 0
    /\ received_quantity["L1"] = received_items[2].received_quantity
    /\ Len(movements) = 1
    /\ stock["Flour"] = opening["Flour"] + received_items[2].received_quantity

(* ----------------------- manual deduction, bounds ---------------------- *)

\* C29: a manual deduct_stock request for more than the ingredient's
\* current_stock is rejected as a client error and changes neither the balance
\* nor the ledger (it is not clamped); a request for a positive amount a up to
\* the balance is accepted, lowers the balance by exactly a and appends one
\* 'out' movement of a with a MANUAL reference.
C29_ManualOverdrawRejected ==
    [][ /\ \A i \in Ingredients, amount \in Amounts :
              ManualDeduct("w1", i, amount) =>
                  IF amount > stock[i]
                  THEN /\ response'.kind = "bad_request"
                       /\ pc' = pc
                       /\ stock' = stock
                       /\ movements' = movements
                  ELSE amount > 0 =>
                          /\ pc'["w1"] = "m_save"
                          /\ local'["w1"].ingredient = i
                          /\ local'["w1"].needed = amount
        /\ ManualSave("w1") =>
              /\ stock' = [stock EXCEPT ![local["w1"].ingredient] =
                                            @ - local["w1"].needed]
              /\ movements' = movements
              /\ pc'["w1"] = "m_create"
        /\ ManualCreate("w1") =>
              /\ stock' = stock
              /\ Len(movements') = Len(movements) + 1
              /\ SubSeq(movements', 1, Len(movements)) = movements
              /\ LET m == movements'[Len(movements')]
                 IN /\ m.ingredient = local["w1"].ingredient
                    /\ m.movement_type = "out"
                    /\ m.quantity = local["w1"].needed
                    /\ m.reference.tag = "MANUAL"
                    /\ m.new_stock = stock[m.ingredient]
                    /\ m.previous_stock = m.new_stock + m.quantity ]_vars

\* C29 witness: a deduction of 2 from a balance of 3 was accepted and
\* recorded, and a second request for 2 against the remaining 1 was refused,
\* leaving the balance at 1 and the ledger at one movement.
C29_Witness ==
    \E i \in Ingredients :
        /\ nops = 2
        /\ response.kind = "bad_request"
        /\ response.message = "insufficient"
        /\ opening[i] = 3
        /\ stock[i] = 1
        /\ Len(movements) = 1
        /\ movements[1].ingredient = i
        /\ movements[1].reference.tag = "MANUAL"
        /\ movements[1].quantity = 2
        /\ movements[1].new_stock = 1

(* ------------------------------ unit cost ------------------------------ *)
\* the lines of a batch that added stock to ingredient i
AddedLinesOf(batch, i) ==
    SelectSeq(AddedLines(batch), LAMBDA x : LineIngredient(x.item_id) = i)

\* C27: after a receipt that added stock to an ingredient at unit cost c,
\* the ingredient's unit_cost is c, the cost of the last line added for it; an
\* ingredient the receipt added nothing to keeps its unit_cost.
C27_UnitCostIsIncomingCost ==
    [][ReceiveItems(received_items') =>
          \A i \in Ingredients :
              LET lines == AddedLinesOf(received_items', i)
              IN IF lines = << >>
                 THEN unit_cost'[i] = unit_cost[i]
                 ELSE unit_cost'[i] = LineUnitCost(lines[Len(lines)].item_id)]_vars

\* C27 witness: a receipt of Flour at cost 2 has replaced the cost of 1 the
\* ingredient was created with, and Eggs, not received, kept theirs.
C27_Witness ==
    /\ nops = 1
    /\ response.kind = "received"
    /\ AddedLinesOf(received_items, "Flour") # << >>
    /\ AddedLinesOf(received_items, "Eggs") = << >>
    /\ stock["Flour"] > opening["Flour"]
    /\ unit_cost["Flour"] = LineUnitCost("L1")
    /\ unit_cost["Flour"] # unit_cost["Eggs"]

\* an ingredient that has a receipt movement carries that receipt's cost:
\* holds one request at a time, not with a deduction in flight across the
\* receipt, whose ingredient.save() writes the whole row it read
UnitCostFollowsReceipt ==
    \A k \in 1..Len(movements) :
        (movements[k].movement_type = "in" /\ movements[k].reference.tag = "PO")
            => \E l \in POLines :
                  /\ LineIngredient(l) = movements[k].ingredient
                  /\ unit_cost[movements[k].ingredient] = LineUnitCost(l)

(* ------------------------- deferred deduction -------------------------- *)
\* the first loop position of order o
FirstPos(o) == [item |-> Seek(o, 1), ing |-> 1]

\* C30: a save in a qualifying status while no admin or inventory manager
\* exists changes neither stock nor ledger and does not mark the instance; a
\* later save of the same unmarked instance in a qualifying status, once such
\* a user exists, starts the deduction at the order's first entry; and a save
\* of an instance that is marked starts nothing.
C30_DeductionDeferred ==
    [][ \A o \in Orders, s \in Qualifying :
          /\ (UpdateStatus("w1", o, s) /\ ~system_user) =>
                /\ stock' = stock
                /\ movements' = movements
                /\ pc' = pc
                /\ inst'["w1"] = [order |-> o, deducted |-> FALSE]
                /\ processed' = processed
          /\ (Resave("w1", s) /\ inst["w1"].order = o /\ ~inst["w1"].deducted) =>
                /\ stock' = stock
                /\ movements' = movements
                /\ IF ~system_user
                   THEN /\ pc' = pc
                        /\ inst' = inst
                        /\ processed' = processed
                   ELSE IF Finished(o, FirstPos(o))
                        THEN o \in processed' /\ inst'["w1"].deducted
                        ELSE /\ pc'["w1"] = "read"
                             /\ local'["w1"].item = FirstPos(o).item
                             /\ local'["w1"].ing = 1
                             /\ inst'["w1"].order = o
          /\ (Resave("w1", s) /\ inst["w1"].order = o /\ inst["w1"].deducted) =>
                /\ stock' = stock
                /\ movements' = movements
                /\ pc' = pc
                /\ inst' = inst ]_vars

\* C30 witness: order o1 was saved as confirmed while no system user existed,
\* and after a second save it stands processed with one movement for each of
\* its two ingredients.
C30_Witness ==
    /\ "o1" \in deferred
    /\ "o1" \in processed
    /\ nops = 2
    /\ system_user
    /\ inst["w1"] = [order |-> "o1", deducted |-> TRUE]
    /\ Len(movements) = 2
    /\ \A k \in 1..2 : movements[k].reference = OrderRef("o1")
    /\ movements[1].ingredient # movements[2].ingredient
=============================================================================
